---- MODULE Spec2Model ----
(***************************************************************************)
(* State-machine model of shape_key_mg.py: a linear script that drives a   *)
(* host 3D application (object registry, shader node graph, mesh editing,  *)
(* shape keys, keyframes).                                                 *)
(*                                                                         *)
(* pc is the source line of the next statement to execute; Halt is the     *)
(* position past the last line.  The two helper functions of the script    *)
(* that loop (clear_collection, add_keyframe_sequence) are entered by a    *)
(* call action that stores the return line in ret.                         *)
(*                                                                         *)
(* Numbers: floats are fixed point.  Property values (shape-key weights,   *)
(* colour channels) are in 1/1000, angles in micro-radians, coordinates in *)
(* 1/10 of a unit.  Every property value is a tuple of integers (a scalar  *)
(* is a 1-tuple).  Names of host data-blocks are pairs <<base, n>>: the    *)
(* host's "Camera", "Camera.001", ... are <<"Camera",0>>, <<"Camera",1>>.  *)
(***************************************************************************)
EXTENDS Integers, Sequences, FiniteSets, TLC

VARIABLES pc, ret, raised,
          scene, objects, coll, coll0, active, selected, it, name,
          props,
          mat, mat_hist,
          mesh, mesh_mats, em, sessions, bm, faces_copy, faces_select, vertices,
          keys, active_key, mode,
          call, fcurves, kf_log

ctlVars   == <<pc, ret, raised>>
sceneVars == <<scene, objects, coll, coll0, active, selected, it, name>>
matVars   == <<mat, mat_hist>>
meshVars  == <<mesh, mesh_mats, em, sessions, bm, faces_copy, faces_select, vertices,
               keys, active_key, mode>>
kfVars    == <<call, fcurves, kf_log>>
vars      == <<ctlVars, sceneVars, props, matVars, meshVars, kfVars>>

-----------------------------------------------------------------------------
(* Bounds of the model *)

\* longest values / frames sequence drawn for a free-standing call of
\* add_keyframe_sequence
MaxLen == 3
\* most objects the cleared collection holds before the run
MaxObjs == 2
\* most data-blocks of the registry that no collection links before the run
MaxOrphans == 1
\* how many times the material construction is invoked in a row
MaxRuns == 3

-----------------------------------------------------------------------------
(* Generic helpers *)

Halt == 258 + 1

NoObj == <<"", 0>>

Min(a, b) == IF a < b THEN a ELSE b

Range(s) == {s[k] : k \in DOMAIN s}

SeqsUpTo(S, n) == UNION {[1..k -> S] : k \in 0..n}

\* the sequence s without its elements equal to x
RECURSIVE Without(_, _)
Without(s, x) ==
    IF s = <<>> THEN <<>>
    ELSE IF Head(s) = x THEN Without(Tail(s), x)
    ELSE <<Head(s)>> \o Without(Tail(s), x)

\* the property table p with entry key set to v (created when absent)
PutProp(p, key, v) == (key :> v) @@ p

\* the property table p without the properties of owner
DropOwner(p, owner) == [k \in {q \in DOMAIN p : q[1] # owner} |-> p[k]]

-----------------------------------------------------------------------------
(* degToRadian, lines 13-15: angle * (pi / 180), in micro-radians *)

PiMicro == 3141593

degToRadian(angle) == (angle * PiMicro) \div 180

-----------------------------------------------------------------------------
(* add_keyframe_sequence, lines 35-39 *)

NoCall == [owner |-> NoObj, attr |-> "", values |-> <<>>, frames |-> <<>>,
           i |-> 0, v |-> <<>>, f |-> 0]

\* zip(values, frames), Python 3.10 mode: raises on a length mismatch
ZipStepStrict(values, frames, i) ==
    IF i < Len(values) /\ i < Len(frames) THEN "pair"
    ELSE IF i < Len(values) \/ i < Len(frames) THEN "raise"
    ELSE "stop"

\* zip stopping one pair early
ZipStepShort(values, frames, i) ==
    IF i + 1 < Len(values) /\ i + 1 < Len(frames) THEN "pair" ELSE "stop"

\* zip(values, frames) asked for its next pair after i pairs: it yields a pair
\* while both sequences have an element left and stops, without an error,
\* as soon as either is exhausted (line 37)
ZipStep(values, frames, i) ==
    IF i < Len(values) /\ i < Len(frames) THEN "pair" ELSE "stop"

\* loop body with the two statements exchanged
KfAfterSwapped(line) ==
    CASE line = 37 -> 39
      [] line = 39 -> 38
      [] OTHER     -> 37

\* statement order of the loop: for (37), setattr (38), keyframe_insert (39),
\* back to for
KfAfter(line) ==
    CASE line = 37 -> 38
      [] line = 38 -> 39
      [] OTHER     -> 37

\* line 37: the for statement takes the next (v, f) pair of the zip, or ends
\* the loop and returns to the caller
KfZipNext ==
    /\ pc = 37
    /\ LET step == ZipStep(call.values, call.frames, call.i) IN
         IF step = "pair"
         THEN /\ call' = [call EXCEPT !.i = @ + 1,
                                      !.v = call.values[call.i + 1],
                                      !.f = call.frames[call.i + 1]]
              /\ pc' = KfAfter(37)
              /\ UNCHANGED <<ret, raised>>
         ELSE IF step = "stop"
         THEN /\ pc' = ret
              /\ ret' = Halt
              /\ UNCHANGED <<call, raised>>
         ELSE /\ pc' = Halt
              /\ raised' = TRUE
              /\ UNCHANGED <<call, ret>>
    /\ UNCHANGED <<sceneVars, props, matVars, meshVars, fcurves, kf_log>>

\* line 38: setattr(obj, attribute, v)
KfSetAttr ==
    /\ pc = 38
    /\ props' = PutProp(props, <<call.owner, call.attr>>, call.v)
    /\ kf_log' = Append(kf_log, [op |-> "set", owner |-> call.owner, attr |-> call.attr,
                                 frame |-> 0, value |-> call.v])
    /\ pc' = KfAfter(38)
    /\ UNCHANGED <<ret, raised, sceneVars, matVars, meshVars, call, fcurves>>

\* the keys of a property's curve after a key at frame with value: a key
\* already at that frame is replaced
InsertKey(fc, owner, attr, frame, value) ==
    {k \in fc : ~(k.owner = owner /\ k.attr = attr /\ k.frame = frame)}
        \cup {[owner |-> owner, attr |-> attr, frame |-> frame, value |-> value]}

\* line 39: obj.keyframe_insert(data_path=attribute, frame=f) records the
\* property's live value at frame f
KfInsert ==
    /\ pc = 39
    /\ LET live == props[<<call.owner, call.attr>>] IN
         /\ fcurves' = InsertKey(fcurves, call.owner, call.attr, call.f, live)
         /\ kf_log' = Append(kf_log, [op |-> "key", owner |-> call.owner,
                                      attr |-> call.attr, frame |-> call.f,
                                      value |-> live])
    /\ pc' = KfAfter(39)
    /\ UNCHANGED <<ret, raised, sceneVars, props, matVars, meshVars, call>>

KfNext == KfZipNext \/ KfSetAttr \/ KfInsert

-----------------------------------------------------------------------------
(* The keyframe tables of the script, lines 220-258 *)

Values1 == <<<<1000>>, <<200>>, <<0>>, <<0>>, <<750>>, <<1000>>>>
Frames1 == <<0, 10, 40, 135, 145, 170>>

Values2 == <<<<0>>, <<265>>, <<950>>, <<0>>>>
\* the second sequence with its last two frames exchanged
Frames2Unsorted == <<100, 110, 142, 132>>

Frames2 == <<100, 110, 132, 142>>

Values3 == <<<<degToRadian(90), degToRadian(0), degToRadian(0)>>,
             <<degToRadian(90), degToRadian(85), degToRadian(0)>>,
             <<degToRadian(90), degToRadian(90), degToRadian(0)>>>>
Frames3 == <<0, 10, 50>>

Values4 == <<<<0, 500, 1000, 1000>>, <<960, 420, 0, 1000>>,
             <<960, 420, 0, 1000>>, <<0, 500, 1000, 1000>>>>
Frames4 == <<100, 125, 132, 142>>

-----------------------------------------------------------------------------
(* Host data-blocks: names, the object registry, the cleared collection *)

\* the name the host gives a new data-block: base itself when it is free,
\* else base.001, base.002, ...
FreshName(base, used) ==
    <<base, CHOOSE k \in 0..Cardinality(used) :
                /\ <<base, k>> \notin used
                /\ \A j \in 0..(k - 1) : <<base, j>> \in used>>

\* object data-blocks a scene may hold before the run
Pool == {<<"Camera", 0>>, <<"Cube", 0>>, <<"Light", 0>>, <<"Plane", 0>>}

KindOf(n) ==
    CASE n[1] = "Camera" -> "CAMERA"
      [] n[1] = "Light"  -> "LIGHT"
      [] OTHER           -> "MESH"

NewObject(kind) == [kind |-> kind, type |-> IF kind = "CAMERA" THEN "PERSP" ELSE ""]

\* transform properties of a newly added object
DefaultTransform(n) ==
    (<<n, "location">> :> <<0, 0, 0>>)
        @@ (<<n, "rotation_euler">> :> <<0, 0, 0>>)
        @@ (<<n, "scale">> :> <<1000, 1000, 1000>>)

RECURSIVE TransformsOf(_)
TransformsOf(S) ==
    IF S = {} THEN <<>>
    ELSE LET n == CHOOSE x \in S : TRUE IN DefaultTransform(n) @@ TransformsOf(S \ {n})

\* the objects of the scene: those a collection links
SceneObjects == Range(coll)

-----------------------------------------------------------------------------
(* Scene set-up, lines 44-50 *)

\* lines 46-48: view transform and world background colour
SetupScene ==
    /\ pc = 46
    /\ scene' = [scene EXCEPT !.view_transform = "Standard", !.bg = <<0, 0, 0, 1000>>]
    /\ pc' = 50
    /\ UNCHANGED <<ret, raised, objects, coll, coll0, active, selected, it, name,
                   props, matVars, meshVars, kfVars>>

-----------------------------------------------------------------------------
(* clear_collection, lines 30-33 *)

\* the element after x in list, NoObj when x is the last
SuccIn(list, x) ==
    LET k == CHOOSE j \in DOMAIN list : list[j] = x IN
    IF k < Len(list) THEN list[k + 1] ELSE NoObj

\* an iterator that indexes the live list by the count of items yielded
IterYieldIndexed(list, link, n) ==
    IF n < Len(list) THEN list[n + 1] ELSE NoObj

\* the item the host's collection iterator yields: the list link it holds.
\* The host's iterator is a linked-list cursor that is moved to the following
\* link at the moment an item is yielded, before the loop body runs, so the
\* body's removal of the yielded item does not disturb it.
IterYield(list, link, n) == link

\* bpy.data.objects.remove(obj): the registry without the data-block
RegistryRemove(objs, n) == [k \in (DOMAIN objs) \ {n} |-> objs[k]]

\* a removed data-block is unlinked from the collection that held it
Unlink(list, n) == Without(list, n)

\* line 50: clear_collection(bpy.data.collections[0]); the for statement of
\* line 32 creates the iterator over collection.objects
ClearCall ==
    /\ pc = 50
    /\ it' = [link |-> IF coll = <<>> THEN NoObj ELSE Head(coll), cur |-> NoObj, n |-> 0]
    /\ pc' = 32
    /\ ret' = 56
    /\ UNCHANGED <<raised, scene, objects, coll, coll0, active, selected, name,
                   props, matVars, meshVars, kfVars>>

\* line 32: the for statement takes the next object, or ends the loop and
\* returns
ClearNext ==
    /\ pc = 32
    /\ LET obj == IterYield(coll, it.link, it.n) IN
         IF obj = NoObj
         THEN /\ pc' = ret
              /\ ret' = Halt
              /\ UNCHANGED it
         ELSE /\ it' = [link |-> SuccIn(coll, obj), cur |-> obj, n |-> it.n + 1]
              /\ pc' = 33
              /\ UNCHANGED ret
    /\ UNCHANGED <<raised, scene, objects, coll, coll0, active, selected, name,
                   props, matVars, meshVars, kfVars>>

\* line 33: bpy.data.objects.remove(obj)
ClearRemove ==
    /\ pc = 33
    /\ objects' = RegistryRemove(objects, it.cur)
    /\ coll' = Unlink(coll, it.cur)
    /\ props' = DropOwner(props, it.cur)
    /\ active' = IF active = it.cur THEN NoObj ELSE active
    /\ selected' = Without(selected, it.cur)
    /\ pc' = 32
    /\ UNCHANGED <<ret, raised, scene, coll0, it, name, matVars, meshVars, kfVars>>

-----------------------------------------------------------------------------
(* Transform helpers, lines 9-28, and the camera, lines 54-64 *)

\* line 56: bpy.ops.object.camera_add(): a new camera object, linked into the
\* collection, made the active and the only selected object
CameraAdd ==
    /\ pc = 56
    /\ LET n == FreshName("Camera", DOMAIN objects) IN
         /\ objects' = (n :> NewObject("CAMERA")) @@ objects
         /\ coll' = Append(coll, n)
         /\ props' = DefaultTransform(n) @@ props
         /\ active' = n
         /\ selected' = <<n>>
    /\ pc' = 58
    /\ UNCHANGED <<ret, raised, scene, coll0, it, name, matVars, meshVars, kfVars>>

\* lines 58 and 96: name = get_name(), the name of the active object
GetName ==
    /\ pc \in {58, 96}
    /\ IF active = NoObj
       THEN /\ pc' = Halt
            /\ raised' = TRUE
            /\ UNCHANGED name
       ELSE /\ name' = active
            /\ pc' = IF pc = 58 THEN 60 ELSE 98
            /\ UNCHANGED raised
    /\ UNCHANGED <<ret, scene, objects, coll, coll0, active, selected, it,
                   props, matVars, meshVars, kfVars>>

\* what a helper does with bpy.data.objects[name]: a missing name raises
SetObjectProp(attr, value, next) ==
    /\ IF name \in DOMAIN objects
       THEN /\ props' = PutProp(props, <<name, attr>>, value)
            /\ pc' = next
            /\ UNCHANGED raised
       ELSE /\ pc' = Halt
            /\ raised' = TRUE
            /\ UNCHANGED props
    /\ UNCHANGED <<ret, sceneVars, matVars, meshVars, kfVars>>

\* line 60: move_obj(name, [0, -8, 0])
MoveCamera ==
    /\ pc = 60
    /\ SetObjectProp("location", <<0, -8000, 0>>, 62)

\* lines 62 and 98: rotate_obj(name, [90, 0, 0])
RotateObj ==
    /\ pc \in {62, 98}
    /\ SetObjectProp("rotation_euler",
                     <<degToRadian(90), degToRadian(0), degToRadian(0)>>,
                     IF pc = 62 THEN 64 ELSE 101)

\* line 64: bpy.context.active_object.data.type = "ORTHO"
SetOrtho ==
    /\ pc = 64
    /\ IF active = NoObj
       THEN /\ pc' = Halt
            /\ raised' = TRUE
            /\ UNCHANGED objects
       ELSE /\ objects' = [objects EXCEPT ![active].type = "ORTHO"]
            /\ pc' = 69
            /\ UNCHANGED raised
    /\ UNCHANGED <<ret, scene, coll, coll0, active, selected, it, name,
                   props, matVars, meshVars, kfVars>>

-----------------------------------------------------------------------------
(* Material with an emission shader, lines 66-89.                          *)
(* mat is the material named "Material" and its node tree: nodes are       *)
(* records [id, name, type], links are records [from, to, socket] over     *)
(* node ids.  out_ref and em_ref are the script's variables mat_output and *)
(* emission (a node id, 0 for None).                                       *)

PrincipledName == <<"Principled BSDF", 0>>
EmissionName   == <<"Emission", 0>>
OutputName     == <<"Material Output", 0>>
ColorAttr      == "inputs.Color.default_value"

NodeNames(nodes) == {n.name : n \in nodes}

\* nodes.get(name): the id of the node of that name, 0 for None
NodeGet(nodes, nm) ==
    IF nm \in NodeNames(nodes) THEN (CHOOSE n \in nodes : n.name = nm).id ELSE 0

\* the node tree the host builds when nodes are first enabled: a Principled
\* BSDF wired to the surface input of a Material Output
DefaultTree(m) ==
    [m EXCEPT !.has_tree = TRUE,
              !.nodes = {[id |-> m.next_id, name |-> PrincipledName,
                          type |-> "ShaderNodeBsdfPrincipled"],
                         [id |-> m.next_id + 1, name |-> OutputName,
                          type |-> "ShaderNodeOutputMaterial"]},
              !.links = {[from |-> m.next_id, to |-> m.next_id + 1, socket |-> "Surface"]},
              !.next_id = m.next_id + 2]

\* a removal that removes nothing
NodeKept(m, nm) == m

\* nodes.remove(nodes.get(name)): the node goes, and every link at it
NodeRemove(m, nm) ==
    LET id == NodeGet(m.nodes, nm) IN
    [m EXCEPT !.nodes = {n \in m.nodes : n.id # id},
              !.links = {l \in m.links : l.from # id /\ l.to # id}]

\* what is compared when two node graphs are called equal: names, types and
\* links between names, not the identity of the node objects
Shape(m) ==
    LET nameOf(id) == (CHOOSE n \in m.nodes : n.id = id).name IN
    [nodes |-> {[name |-> n.name, type |-> n.type] : n \in m.nodes},
     links |-> {[from |-> nameOf(l.from), to |-> nameOf(l.to), socket |-> l.socket] :
                    l \in m.links}]

\* line 69: bpy.data.materials.get(mat_name) or bpy.data.materials.new(mat_name)
MatGetOrNew ==
    /\ pc = 69
    /\ mat' = IF mat.exists THEN mat ELSE [mat EXCEPT !.exists = TRUE]
    /\ pc' = 72
    /\ UNCHANGED <<ret, raised, sceneVars, props, mat_hist, meshVars, kfVars>>

\* lines 72-74: mat.use_nodes = True; a material without a node tree gets the
\* host's default tree
MatUseNodes ==
    /\ pc = 72
    /\ mat' = IF mat.has_tree THEN [mat EXCEPT !.use_nodes = TRUE]
              ELSE [DefaultTree(mat) EXCEPT !.use_nodes = TRUE]
    /\ pc' = 77
    /\ UNCHANGED <<ret, raised, sceneVars, props, mat_hist, meshVars, kfVars>>

\* lines 77-78: remove the 'Principled BSDF' node if there is one
MatRemovePrincipled ==
    /\ pc = 77
    /\ mat' = IF NodeGet(mat.nodes, PrincipledName) # 0
              THEN NodeRemove(mat, PrincipledName) ELSE mat
    /\ pc' = 81
    /\ UNCHANGED <<ret, raised, sceneVars, props, mat_hist, meshVars, kfVars>>

\* lines 81-82: remove the 'Emission' node if there is one
MatRemoveEmission ==
    /\ pc = 81
    /\ mat' = IF NodeGet(mat.nodes, EmissionName) # 0
              THEN NodeRemove(mat, EmissionName) ELSE mat
    /\ props' = IF NodeGet(mat'.nodes, EmissionName) = 0
                THEN DropOwner(props, EmissionName) ELSE props
    /\ pc' = 85
    /\ UNCHANGED <<ret, raised, sceneVars, mat_hist, meshVars, kfVars>>

\* lines 85-87: mat_output = nodes.get('Material Output');
\* emission = nodes.new('ShaderNodeEmission')
MatNewEmission ==
    /\ pc = 85
    /\ LET nm == FreshName("Emission", NodeNames(mat.nodes)) IN
         /\ mat' = [mat EXCEPT !.nodes = @ \cup {[id |-> mat.next_id, name |-> nm,
                                                  type |-> "ShaderNodeEmission"]},
                               !.next_id = @ + 1,
                               !.out_ref = NodeGet(mat.nodes, OutputName),
                               !.em_ref = mat.next_id]
         /\ props' = PutProp(props, <<nm, ColorAttr>>, <<1000, 1000, 1000, 1000>>)
    /\ pc' = 89
    /\ UNCHANGED <<ret, raised, sceneVars, mat_hist, meshVars, kfVars>>

\* line 89: mat.node_tree.links.new(mat_output.inputs[0], emission.outputs[0]);
\* an input socket holds one link, so a link already into it is replaced
MatLink ==
    /\ pc = 89
    /\ IF mat.out_ref = 0
       THEN /\ pc' = Halt
            /\ raised' = TRUE
            /\ UNCHANGED <<mat, mat_hist>>
       ELSE /\ mat' = [mat EXCEPT !.links =
                           {l \in @ : ~(l.to = mat.out_ref /\ l.socket = "Surface")}
                               \cup {[from |-> mat.em_ref, to |-> mat.out_ref,
                                      socket |-> "Surface"]}]
            /\ mat_hist' = Append(mat_hist, Shape(mat'))
            /\ pc' = 94
            /\ UNCHANGED raised
    /\ UNCHANGED <<ret, sceneVars, props, meshVars, kfVars>>

MatNext ==
    \/ MatGetOrNew \/ MatUseNodes \/ MatRemovePrincipled \/ MatRemoveEmission
    \/ MatNewEmission \/ MatLink

\* the material construction invoked once more on the same name
MatAgain ==
    /\ pc = 94
    /\ Len(mat_hist) < MaxRuns
    /\ pc' = 69
    /\ UNCHANGED <<ret, raised, sceneVars, props, matVars, meshVars, kfVars>>

\* the states of the material "Material" before a run: absent; present with
\* nodes never enabled; present with a node tree holding the output node and
\* any of the Principled BSDF and Emission nodes, at most one wired to the
\* surface input
NoMaterial ==
    [exists |-> FALSE, use_nodes |-> FALSE, has_tree |-> FALSE, nodes |-> {},
     links |-> {}, next_id |-> 1, out_ref |-> 0, em_ref |-> 0]

TreeMaterial(shaders, wired, use) ==
    [exists |-> TRUE, use_nodes |-> use, has_tree |-> TRUE,
     nodes |-> {[id |-> 1, name |-> OutputName, type |-> "ShaderNodeOutputMaterial"]}
               \cup {[id |-> 2, name |-> PrincipledName,
                      type |-> "ShaderNodeBsdfPrincipled"] : x \in shaders \cap {2}}
               \cup {[id |-> 3, name |-> EmissionName,
                      type |-> "ShaderNodeEmission"] : x \in shaders \cap {3}},
     links |-> {[from |-> w, to |-> 1, socket |-> "Surface"] : w \in wired},
     next_id |-> 4, out_ref |-> 0, em_ref |-> 0]

MatInits ==
    {NoMaterial, [NoMaterial EXCEPT !.exists = TRUE]}
        \cup {TreeMaterial(q[1], q[2], use) :
                 q \in {r \in (SUBSET {2, 3}) \X (SUBSET {2, 3}) :
                           r[2] \subseteq r[1] /\ Cardinality(r[2]) <= 1},
                 use \in BOOLEAN}

\* the colours an Emission node may hold before a run: the host's default
\* white, or the last colour an earlier run keyed
EmissionColours == {<<1000, 1000, 1000, 1000>>, <<0, 500, 1000, 1000>>}

\* the properties a material state brings: the colour of its Emission node
MatProps(m, colour) ==
    IF EmissionName \in NodeNames(m.nodes)
    THEN (<<EmissionName, ColorAttr>> :> colour)
    ELSE <<>>

-----------------------------------------------------------------------------
(* The plane and its mesh, lines 92-109.                                   *)
(* A mesh is [verts, edges, faces]: verts a sequence of <<x, y, z>> whose  *)
(* k-th element is the vertex of index k-1, edges a set of 2-sets of       *)
(* vertex indices, faces a sequence of [id, verts] in face-list order.     *)

EmptyMesh == [verts |-> <<>>, edges |-> {}, faces |-> <<>>]

\* the host's plane primitive: four corners, one quad
PlaneMesh ==
    [verts |-> <<<<-10, -10, 0>>, <<10, -10, 0>>, <<-10, 10, 0>>, <<10, 10, 0>>>>,
     edges |-> {{0, 1}, {1, 3}, {3, 2}, {2, 0}},
     faces |-> <<[id |-> 0, verts |-> <<0, 1, 3, 2>>]>>]

\* line 94: bpy.ops.mesh.primitive_plane_add(): a new mesh object, linked
\* into the collection, made the active and the only selected object
PlaneAdd ==
    /\ pc = 94
    /\ LET n == FreshName("Plane", DOMAIN objects) IN
         /\ objects' = (n :> NewObject("MESH")) @@ objects
         /\ coll' = Append(coll, n)
         /\ props' = DefaultTransform(n) @@ props
         /\ active' = n
         /\ selected' = <<n>>
    /\ mesh' = PlaneMesh
    /\ mesh_mats' = <<>>
    /\ keys' = <<>>
    /\ pc' = 96
    /\ UNCHANGED <<ret, raised, scene, coll0, it, name, matVars, em, sessions, bm,
                   faces_copy, faces_select, vertices, active_key, mode, kfVars>>

\* lines 100-101: scale_obj(name, [plane_scale]*3) with plane_scale = 0.5
ScalePlane ==
    /\ pc = 101
    /\ SetObjectProp("scale", <<500, 500, 500>>, 104)

\* lines 104-109: the material goes into the plane's first material slot
PlaneMaterial ==
    /\ pc = 104
    /\ mesh_mats' = IF mesh_mats # <<>>
                    THEN [mesh_mats EXCEPT ![1] = <<"Material", 0>>]
                    ELSE Append(mesh_mats, <<"Material", 0>>)
    /\ pc' = 115
    /\ UNCHANGED <<ret, raised, sceneVars, props, matVars, mesh, em, sessions, bm,
                   faces_copy, faces_select, vertices, keys, active_key, mode, kfVars>>

-----------------------------------------------------------------------------
(* Editable mesh representations (BMesh), lines 113-133 and 143-196.       *)
(* sessions lists the representations the script has obtained, each with   *)
(* the events it has seen: "load", "read", "edit", "commit", "free".  bm,   *)
(* faces_copy, faces_select and vertices are the script's variables: bm    *)
(* the index of a session, the lists [sess, ids] the session they were     *)
(* read from and the face ids or vertex indices they hold.  em is the      *)
(* geometry the open representation works on.                              *)

NoList == [sess |-> 0, ids |-> <<>>]

Freed(s) == "free" \in Range(sessions[s].events)

Touch(ss, s, ev) == [ss EXCEPT ![s].events = Append(@, ev)]

\* bm.free() that releases nothing
SessionsKept(ss, s) == ss

\* bm.free(): the representation is released
Release(ss, s) == Touch(ss, s, "free")

FaceEdges(f) == {{f[j], f[(j % Len(f)) + 1]} : j \in 1..Len(f)}

SumSeq(f, n) == LET RECURSIVE Go(_) Go(k) == IF k = 0 THEN 0 ELSE f[k] + Go(k - 1) IN Go(n)

\* a coordinate moved by t towards the centre c
Toward(a, c, t) == IF a > c THEN a - t ELSE IF a < c THEN a + t ELSE a

\* bmesh.ops.inset_individual on the face of id fid: the face itself becomes
\* the inner face, on new vertices created in the order of its corners and
\* moved inwards by the thickness; one new quad per side is appended to the
\* face list
InsetIndividual(b, fid, thickness) ==
    LET pos  == CHOOSE q \in DOMAIN b.faces : b.faces[q].id = fid
        f    == b.faces[pos].verts
        k    == Len(f)
        n    == Len(b.verts)
        cx   == SumSeq([j \in 1..k |-> b.verts[f[j] + 1][1]], k) \div k
        cy   == SumSeq([j \in 1..k |-> b.verts[f[j] + 1][2]], k) \div k
        new(j) == n + j - 1
        nxt(j) == (j % k) + 1
        maxid == CHOOSE m \in {b.faces[q].id : q \in DOMAIN b.faces} :
                    \A q \in DOMAIN b.faces : b.faces[q].id <= m
    IN [verts |-> b.verts \o [j \in 1..k |->
                     <<Toward(b.verts[f[j] + 1][1], cx, thickness),
                       Toward(b.verts[f[j] + 1][2], cy, thickness),
                       b.verts[f[j] + 1][3]>>],
        edges |-> b.edges \cup {{new(j), new(nxt(j))} : j \in 1..k}
                          \cup {{f[j], new(j)} : j \in 1..k},
        faces |-> [b.faces EXCEPT ![pos] = [id |-> fid, verts |-> [j \in 1..k |-> new(j)]]]
                  \o [j \in 1..k |-> [id |-> maxid + j,
                                      verts |-> <<f[j], f[nxt(j)], new(nxt(j)), new(j)>>]]]

\* bmesh.ops.delete(geom=[face], context='FACES_ONLY'): the face goes, its
\* edges and vertices stay
DeleteFaceOnly(b, fid) ==
    [b EXCEPT !.faces = LET Keep(x) == x.id # fid IN SelectSeq(b.faces, Keep)]

\* the last face of the list
LastOf(ids) == ids[Len(ids)]

\* faces_copy[0], faces_select[0]
FirstOf(ids) == ids[1]

\* inset thickness, line 124, in 1/10
InsetThickness == 3

\* lines 115-118: mesh = bpy.context.object.data; bm = bmesh.new()
BmNew ==
    /\ pc = 115
    /\ sessions' = Append(sessions, [kind |-> "new", events |-> <<>>])
    /\ bm' = Len(sessions) + 1
    /\ em' = EmptyMesh
    /\ pc' = 119
    /\ UNCHANGED <<ret, raised, sceneVars, props, matVars, mesh, mesh_mats,
                   faces_copy, faces_select, vertices, keys, active_key, mode, kfVars>>

\* a statement that uses a released representation raises
RaiseIfFreed(s, next) ==
    IF Freed(s) THEN pc' = Halt /\ raised' = TRUE
    ELSE pc' = next /\ UNCHANGED raised

\* line 119: bm.from_mesh(mesh)
BmFromMesh ==
    /\ pc = 119
    /\ sessions' = Touch(sessions, bm, "load")
    /\ em' = IF Freed(bm) THEN em ELSE mesh
    /\ RaiseIfFreed(bm, 122)
    /\ UNCHANGED <<ret, sceneVars, props, matVars, mesh, mesh_mats, bm,
                   faces_copy, faces_select, vertices, keys, active_key, mode, kfVars>>

\* lines 122 and 127: [f for f in bm.faces]
ListFaces ==
    /\ pc \in {122, 127}
    /\ sessions' = Touch(sessions, bm, "read")
    /\ LET got == [sess |-> bm,
                   ids |-> IF Freed(bm) THEN <<>>
                           ELSE [q \in DOMAIN em.faces |-> em.faces[q].id]] IN
         IF pc = 122
         THEN faces_copy' = got /\ UNCHANGED faces_select
         ELSE faces_select' = got /\ UNCHANGED faces_copy
    /\ RaiseIfFreed(bm, IF pc = 122 THEN 124 ELSE 129)
    /\ UNCHANGED <<ret, sceneVars, props, matVars, mesh, mesh_mats, em, bm,
                   vertices, keys, active_key, mode, kfVars>>

\* line 124: bmesh.ops.inset_individual(bm, faces=[faces_copy[0]],
\* thickness=0.3, depth=0.0)
Inset ==
    /\ pc = 124
    /\ sessions' = Touch(sessions, bm, "edit")
    /\ IF Freed(bm) \/ faces_copy.ids = <<>>
       THEN /\ pc' = Halt
            /\ raised' = TRUE
            /\ UNCHANGED em
       ELSE /\ em' = InsetIndividual(em, FirstOf(faces_copy.ids), InsetThickness)
            /\ pc' = 127
            /\ UNCHANGED raised
    /\ UNCHANGED <<ret, sceneVars, props, matVars, mesh, mesh_mats, bm,
                   faces_copy, faces_select, vertices, keys, active_key, mode, kfVars>>

\* line 129: bmesh.ops.delete(bm, geom=[faces_select[0]], context='FACES_ONLY')
DeleteInner ==
    /\ pc = 129
    /\ sessions' = Touch(sessions, bm, "edit")
    /\ IF Freed(bm) \/ faces_select.ids = <<>>
       THEN /\ pc' = Halt
            /\ raised' = TRUE
            /\ UNCHANGED em
       ELSE /\ em' = DeleteFaceOnly(em, FirstOf(faces_select.ids))
            /\ pc' = 131
            /\ UNCHANGED raised
    /\ UNCHANGED <<ret, sceneVars, props, matVars, mesh, mesh_mats, bm,
                   faces_copy, faces_select, vertices, keys, active_key, mode, kfVars>>

\* the mesh a representation is written to: its faces numbered by position
AsMesh(b) == [b EXCEPT !.faces = [q \in DOMAIN b.faces |->
                                     [id |-> q - 1, verts |-> b.faces[q].verts]]]

\* line 131: bm.to_mesh(mesh)
BmToMesh ==
    /\ pc = 131
    /\ sessions' = Touch(sessions, bm, "commit")
    /\ mesh' = IF Freed(bm) THEN mesh ELSE AsMesh(em)
    /\ RaiseIfFreed(bm, 133)
    /\ UNCHANGED <<ret, sceneVars, props, matVars, mesh_mats, em, bm,
                   faces_copy, faces_select, vertices, keys, active_key, mode, kfVars>>

\* lines 133, 167 and 193: bm.free(); a representation of its own
\* (bmesh.new) loses its geometry, one that wraps the edit mesh is only
\* invalidated
BmFree ==
    /\ pc \in {133, 167, 193}
    /\ sessions' = Release(sessions, bm)
    /\ em' = IF sessions[bm].kind = "new" THEN EmptyMesh ELSE em
    /\ pc' = CASE pc = 133 -> 139 [] pc = 167 -> 170 [] OTHER -> 196
    /\ UNCHANGED <<ret, raised, sceneVars, props, matVars, mesh, mesh_mats, bm,
                   faces_copy, faces_select, vertices, keys, active_key, mode, kfVars>>

-----------------------------------------------------------------------------
(* Shape keys, lines 137-196.  keys is the mesh's key_blocks: a sequence   *)
(* of [name, co], co the key's vertex positions; a key's weight is the     *)
(* property <<name, "value">>.                                             *)

\* the names the host gives the keys it adds, in order
ShapeKeyNames == <<"Basis", "Key 1", "Key 2", "Key 3", "Key 4">>

\* the summed offset the keys 2..k put on coordinate c of vertex i, each by
\* its weight
RECURSIVE KeyOffset(_, _, _, _, _)
KeyOffset(ks, p, i, c, k) ==
    IF k < 2 THEN 0
    ELSE (p[<<ks[k].name, "value">>][1] * (ks[k].co[i][c] - ks[1].co[i][c])) \div 1000
             + KeyOffset(ks, p, i, c, k - 1)

\* the positions a new key starts from: the base mesh for the first key,
\* the current mix of the keys after it
NewKeyCo(ks, p, m) ==
    IF ks = <<>> THEN m.verts
    ELSE [i \in DOMAIN ks[1].co |->
             [c \in 1..3 |-> ks[1].co[i][c] + KeyOffset(ks, p, i, c, Len(ks))]]

\* lines 139, 141 and 174: bpy.ops.object.shape_key_add(); the new key is
\* made the active one
ShapeKeyAdd ==
    /\ pc \in {139, 141, 174}
    /\ LET nm == <<ShapeKeyNames[Len(keys) + 1], 0>> IN
         /\ keys' = Append(keys, [name |-> nm, co |-> NewKeyCo(keys, props, mesh)])
         /\ props' = PutProp(props, <<nm, "value">>, <<0>>)
    /\ active_key' = Len(keys)
    /\ pc' = CASE pc = 139 -> 141 [] pc = 141 -> 144 [] OTHER -> 176
    /\ UNCHANGED <<ret, raised, sceneVars, matVars, mesh, mesh_mats, em, sessions, bm,
                   faces_copy, faces_select, vertices, mode, kfVars>>

\* lines 144 and 176: bpy.ops.object.mode_set(mode="EDIT"): the host's edit
\* mesh shows the active key's positions
ModeSetEdit ==
    /\ pc \in {144, 176}
    /\ mode' = "EDIT"
    /\ em' = [mesh EXCEPT !.verts = keys[active_key + 1].co]
    /\ pc' = IF pc = 144 THEN 146 ELSE 178
    /\ UNCHANGED <<ret, raised, sceneVars, props, matVars, mesh, mesh_mats, sessions, bm,
                   faces_copy, faces_select, vertices, keys, active_key, kfVars>>

\* lines 146 and 178: bm = bmesh.from_edit_mesh(mesh)
FromEditMesh ==
    /\ pc \in {146, 178}
    /\ sessions' = Append(sessions, [kind |-> "edit", events |-> <<>>])
    /\ bm' = Len(sessions) + 1
    /\ pc' = IF pc = 146 THEN 149 ELSE 181
    /\ UNCHANGED <<ret, raised, sceneVars, props, matVars, mesh, mesh_mats, em,
                   faces_copy, faces_select, vertices, keys, active_key, mode, kfVars>>

\* lines 149 and 181: vertices = [v for v in bm.verts]
ListVerts ==
    /\ pc \in {149, 181}
    /\ sessions' = Touch(sessions, bm, "read")
    /\ vertices' = [sess |-> bm,
                    ids |-> IF Freed(bm) THEN <<>>
                            ELSE [q \in DOMAIN em.verts |-> q - 1]]
    /\ RaiseIfFreed(bm, IF pc = 149 THEN 152 ELSE 184)
    /\ UNCHANGED <<ret, sceneVars, props, matVars, mesh, mesh_mats, em, bm,
                   faces_copy, faces_select, keys, active_key, mode, kfVars>>

\* the assignments with the sources of vertices 7 and 6 exchanged
EditOpCrossed(line) ==
    CASE line = 152 -> [dst |-> 4, src |-> 0, axis |-> 1, next |-> 153]
      [] line = 153 -> [dst |-> 4, src |-> 0, axis |-> 2, next |-> 155]
      [] line = 155 -> [dst |-> 5, src |-> 1, axis |-> 1, next |-> 156]
      [] line = 156 -> [dst |-> 5, src |-> 1, axis |-> 2, next |-> 158]
      [] line = 158 -> [dst |-> 7, src |-> 3, axis |-> 1, next |-> 159]
      [] line = 159 -> [dst |-> 7, src |-> 3, axis |-> 2, next |-> 161]
      [] line = 161 -> [dst |-> 6, src |-> 2, axis |-> 1, next |-> 162]
      [] line = 162 -> [dst |-> 6, src |-> 2, axis |-> 2, next |-> 165]
      [] line = 184 -> [dst |-> 4, src |-> 0, axis |-> 1, next |-> 185]
      [] line = 185 -> [dst |-> 4, src |-> 0, axis |-> 2, next |-> 187]
      [] line = 187 -> [dst |-> 6, src |-> 3, axis |-> 1, next |-> 188]
      [] OTHER      -> [dst |-> 6, src |-> 3, axis |-> 2, next |-> 191]

\* the vertex assignments of lines 152-162 and 184-188:
\* vertices[dst].co.<axis> = vertices[src].co.<axis>, axis 1 for x, 2 for y
EditOp(line) ==
    CASE line = 152 -> [dst |-> 4, src |-> 0, axis |-> 1, next |-> 153]
      [] line = 153 -> [dst |-> 4, src |-> 0, axis |-> 2, next |-> 155]
      [] line = 155 -> [dst |-> 5, src |-> 1, axis |-> 1, next |-> 156]
      [] line = 156 -> [dst |-> 5, src |-> 1, axis |-> 2, next |-> 158]
      [] line = 158 -> [dst |-> 7, src |-> 2, axis |-> 1, next |-> 159]
      [] line = 159 -> [dst |-> 7, src |-> 2, axis |-> 2, next |-> 161]
      [] line = 161 -> [dst |-> 6, src |-> 3, axis |-> 1, next |-> 162]
      [] line = 162 -> [dst |-> 6, src |-> 3, axis |-> 2, next |-> 165]
      [] line = 184 -> [dst |-> 4, src |-> 0, axis |-> 1, next |-> 185]
      [] line = 185 -> [dst |-> 4, src |-> 0, axis |-> 2, next |-> 187]
      [] line = 187 -> [dst |-> 6, src |-> 3, axis |-> 1, next |-> 188]
      [] OTHER      -> [dst |-> 6, src |-> 3, axis |-> 2, next |-> 191]

EditLines == {152, 153, 155, 156, 158, 159, 161, 162, 184, 185, 187, 188}

\* one vertex assignment; an index past the end of the list raises
VertAssign ==
    /\ pc \in EditLines
    /\ sessions' = Touch(sessions, vertices.sess, "edit")
    /\ LET op == EditOp(pc) IN
         IF \/ Freed(vertices.sess)
            \/ op.dst >= Len(vertices.ids)
            \/ op.src >= Len(vertices.ids)
         THEN /\ pc' = Halt
              /\ raised' = TRUE
              /\ UNCHANGED em
         ELSE /\ em' = [em EXCEPT !.verts[vertices.ids[op.dst + 1] + 1][op.axis] =
                                       em.verts[vertices.ids[op.src + 1] + 1][op.axis]]
              /\ pc' = op.next
              /\ UNCHANGED raised
    /\ UNCHANGED <<ret, sceneVars, props, matVars, mesh, mesh_mats, bm,
                   faces_copy, faces_select, vertices, keys, active_key, mode, kfVars>>

\* lines 165 and 191: bmesh.update_edit_mesh(mesh, True)
UpdateEditMesh ==
    /\ pc \in {165, 191}
    /\ sessions' = Touch(sessions, bm, "commit")
    /\ pc' = IF pc = 165 THEN 167 ELSE 193
    /\ UNCHANGED <<ret, raised, sceneVars, props, matVars, mesh, mesh_mats, em, bm,
                   faces_copy, faces_select, vertices, keys, active_key, mode, kfVars>>

\* lines 170 and 196: bpy.ops.object.mode_set(mode="OBJECT"): the edit
\* mesh's positions are stored in the active key
ModeSetObject ==
    /\ pc \in {170, 196}
    /\ mode' = "OBJECT"
    /\ keys' = [keys EXCEPT ![active_key + 1].co = em.verts]
    /\ mesh' = IF active_key = 0 THEN [mesh EXCEPT !.verts = em.verts] ELSE mesh
    /\ em' = EmptyMesh
    /\ pc' = IF pc = 170 THEN 174 ELSE 203
    /\ UNCHANGED <<ret, raised, sceneVars, props, matVars, mesh_mats, sessions, bm,
                   faces_copy, faces_select, vertices, active_key, kfVars>>

-----------------------------------------------------------------------------
(* Animation set-up and the four keyframe sequences, lines 201-258 *)

Fps == 60

FrameStart == 0

\* the end frame the comment of line 207 names
FrameEndAsCommented == 200

FrameEnd == 175

\* lines 203-210: frame rate and frame range
SetFrameRange ==
    /\ pc = 203
    /\ scene' = [scene EXCEPT !.fps = Fps, !.frame_start = FrameStart,
                              !.frame_end = FrameEnd, !.frame_current = 0]
    /\ pc' = 224
    /\ UNCHANGED <<ret, raised, objects, coll, coll0, active, selected, it, name,
                   props, matVars, meshVars, kfVars>>

\* key_blocks[k] of the selected object's mesh, NoObj when there is none
KeyBlock(k) ==
    IF selected # <<>> /\ selected[1] \in DOMAIN objects
          /\ objects[selected[1]].kind = "MESH" /\ k < Len(keys)
    THEN keys[k + 1].name ELSE NoObj

\* the arguments of the calls of lines 224, 235, 248 and 258, and the line
\* each returns to
CallAt(line) ==
    CASE line = 224 -> [owner |-> KeyBlock(1), attr |-> "value",
                        values |-> Values1, frames |-> Frames1, ret |-> 235]
      [] line = 235 -> [owner |-> KeyBlock(2), attr |-> "value",
                        values |-> Values2, frames |-> Frames2, ret |-> 248]
      [] line = 248 -> [owner |-> IF selected = <<>> THEN NoObj ELSE selected[1],
                        attr |-> "rotation_euler",
                        values |-> Values3, frames |-> Frames3, ret |-> 258]
      [] OTHER      -> [owner |-> IF NodeGet(mat.nodes, EmissionName) = 0 THEN NoObj
                                  ELSE EmissionName,
                        attr |-> ColorAttr,
                        values |-> Values4, frames |-> Frames4, ret |-> Halt]

\* lines 215-224, 229-235, 240-248 and 252-258: look the target up and call
\* add_keyframe_sequence; a target that does not exist raises
KfCall ==
    /\ pc \in {224, 235, 248, 258}
    /\ LET c == CallAt(pc) IN
         IF c.owner = NoObj
         THEN /\ pc' = Halt
              /\ raised' = TRUE
              /\ UNCHANGED <<call, ret>>
         ELSE /\ call' = [owner |-> c.owner, attr |-> c.attr, values |-> c.values,
                          frames |-> c.frames, i |-> 0, v |-> <<>>, f |-> 0]
              /\ ret' = c.ret
              /\ pc' = 37
              /\ UNCHANGED raised
    /\ UNCHANGED <<sceneVars, props, matVars, meshVars, fcurves, kf_log>>

-----------------------------------------------------------------------------
(* Initial states and specifications *)

\* the host's scene settings before the run
StartupScene ==
    [view_transform |-> "Filmic", bg |-> <<50, 50, 50, 1000>>, fps |-> 24,
     frame_start |-> 1, frame_end |-> 250, frame_current |-> 1]

NoIter == [link |-> NoObj, cur |-> NoObj, n |-> 0]

InjSeqs(S, n) == {s \in SeqsUpTo(S, n) : \A i, j \in DOMAIN s : i # j => s[i] # s[j]}

MeshIdle ==
    /\ mesh = EmptyMesh
    /\ mesh_mats = <<>>
    /\ em = EmptyMesh
    /\ sessions = <<>>
    /\ bm = 0
    /\ faces_copy = NoList
    /\ faces_select = NoList
    /\ vertices = NoList
    /\ keys = <<>>
    /\ active_key = 0
    /\ mode = "OBJECT"

KfIdle ==
    /\ call = NoCall
    /\ fcurves = {}
    /\ kf_log = <<>>

SceneIdle ==
    /\ scene = StartupScene
    /\ objects = <<>>
    /\ coll = <<>>
    /\ coll0 = <<>>
    /\ active = NoObj
    /\ selected = <<>>
    /\ it = NoIter
    /\ name = NoObj

\* The script is run in a scene laid out like the host's startup file, which
\* is also the layout a previous run of the script leaves: every object of
\* the scene is linked by the first collection, bpy.data.collections[0]; the
\* registry may hold further object data-blocks that no collection links.
\* The collection holds up to MaxObjs objects in any order.
Init ==
    /\ pc = 46
    /\ ret = Halt
    /\ raised = FALSE
    /\ scene = StartupScene
    /\ coll \in InjSeqs(Pool, MaxObjs)
    /\ \E orphans \in SUBSET (Pool \ Range(coll)) :
          /\ Cardinality(orphans) <= MaxOrphans
          /\ objects = [n \in Range(coll) \cup orphans |-> NewObject(KindOf(n))]
    /\ coll0 = coll
    /\ active \in {NoObj} \cup (IF coll = <<>> THEN {} ELSE {coll[1]})
    /\ selected = IF active = NoObj THEN <<>> ELSE <<active>>
    /\ it = NoIter
    /\ name = NoObj
    /\ mat \in MatInits
    /\ mat_hist = <<>>
    /\ \E colour \in EmissionColours :
          props = TransformsOf(DOMAIN objects) @@ MatProps(mat, colour)
    /\ MeshIdle
    /\ KfIdle

Next ==
    \/ SetupScene \/ ClearCall \/ ClearNext \/ ClearRemove
    \/ CameraAdd \/ GetName \/ MoveCamera \/ RotateObj \/ SetOrtho
    \/ MatGetOrNew \/ MatUseNodes \/ MatRemovePrincipled \/ MatRemoveEmission
    \/ MatNewEmission \/ MatLink
    \/ PlaneAdd \/ ScalePlane \/ PlaneMaterial
    \/ BmNew \/ BmFromMesh \/ ListFaces \/ Inset \/ DeleteInner \/ BmToMesh \/ BmFree
    \/ ShapeKeyAdd \/ ModeSetEdit \/ FromEditMesh \/ ListVerts \/ VertAssign
    \/ UpdateEditMesh \/ ModeSetObject
    \/ SetFrameRange \/ KfCall \/ KfZipNext \/ KfSetAttr \/ KfInsert

\* the whole script, run once from its first statement
Spec == Init /\ [][Next]_vars

\* values and frames drawn for a free-standing call
KfVals   == {<<0>>, <<1000>>}
KfFrames == {0, 10}

KfTarget == <<"obj", 0>>

KfInputs ==
    (SeqsUpTo(KfVals, MaxLen) \X SeqsUpTo(KfFrames, MaxLen))
        \cup {<<Values1, Frames1>>, <<Values2, Frames2>>,
              <<Values3, Frames3>>, <<Values4, Frames4>>}

\* add_keyframe_sequence called on its own, on a property of some object,
\* with any two sequences of up to MaxLen elements or with the sequences of
\* one of the script's calls
InitKf ==
    /\ pc = 37
    /\ ret = Halt
    /\ raised = FALSE
    /\ SceneIdle
    /\ mat = NoMaterial
    /\ mat_hist = <<>>
    /\ props = (<<KfTarget, "attr">> :> <<-1>>)
    /\ MeshIdle
    /\ \E in \in KfInputs :
          call = [owner |-> KfTarget, attr |-> "attr", values |-> in[1],
                  frames |-> in[2], i |-> 0, v |-> <<>>, f |-> 0]
    /\ fcurves = {}
    /\ kf_log = <<>>

SpecKf == InitKf /\ [][KfNext]_vars

\* the material construction invoked MaxRuns times on the same name
InitMat ==
    /\ pc = 69
    /\ ret = Halt
    /\ raised = FALSE
    /\ SceneIdle
    /\ mat \in MatInits
    /\ mat_hist = <<>>
    /\ \E colour \in EmissionColours : props = MatProps(mat, colour)
    /\ MeshIdle
    /\ KfIdle

SpecMat == InitMat /\ [][MatNext \/ MatAgain]_vars

-----------------------------------------------------------------------------
(* Properties *)

Done == pc = Halt /\ ~raised

KeyEvents == {k \in DOMAIN kf_log : kf_log[k].op = "key"}
SetEvents == {k \in DOMAIN kf_log : kf_log[k].op = "set"}

\* the k-th event a call makes when it pairs values[i] with frames[i]: the
\* assignment of values[i] for odd k = 2i-1, the keyframe at frames[i]
\* holding values[i] for even k = 2i
PairedEvent(c, k) ==
    LET i == (k + 1) \div 2 IN
    IF k % 2 = 1
    THEN [op |-> "set", owner |-> c.owner, attr |-> c.attr, frame |-> 0,
          value |-> c.values[i]]
    ELSE [op |-> "key", owner |-> c.owner, attr |-> c.attr, frame |-> c.frames[i],
          value |-> c.values[i]]

\* C1: a call of add_keyframe_sequence with values and frames of equal length
\* n does, for i = 0..n-1 in input order, first the assignment of values[i]
\* and then the recording of a keyframe at frames[i]; the value live in the
\* property at each recording is values[i]; when the call has returned
\* exactly n keyframes have been recorded, 6 for the script's first tables.
C1_PairsAssignedThenKeyed ==
    Len(call.values) = Len(call.frames) =>
        /\ ~raised
        /\ Len(kf_log) <= 2 * Len(call.values)
        /\ \A k \in DOMAIN kf_log : kf_log[k] = PairedEvent(call, k)
        /\ pc = Halt => Cardinality(KeyEvents) = Len(call.values)
        /\ (pc = Halt /\ call.values = <<<<1000>>, <<200>>, <<0>>, <<0>>, <<750>>, <<1000>>>>
                      /\ call.frames = <<0, 10, 40, 135, 145, 170>>)
               => Cardinality(KeyEvents) = 6

C1_Witness ==
    /\ pc = Halt
    /\ call.values = Values1
    /\ call.frames = Frames1
    /\ Len(kf_log) = 12

\* C2 as stated: a call of add_keyframe_sequence with sequences of different
\* lengths ends with a raised error.
C2_MismatchRaises ==
    (Len(call.values) # Len(call.frames) /\ pc = Halt) => raised

\* C2, amended: a call of add_keyframe_sequence with sequences of different
\* lengths raises no error; it keeps running until the for statement finds
\* the shorter sequence exhausted and then returns normally to its caller.
C2_MismatchReturnsNormally ==
    Len(call.values) # Len(call.frames) =>
        /\ ~raised
        /\ pc \in {37, 38, 39, Halt}
        /\ pc # Halt => ENABLED KfNext
        /\ pc = Halt => call.i = Min(Len(call.values), Len(call.frames))

C2_Witness ==
    /\ pc = Halt
    /\ ~raised
    /\ Len(call.values) = 1
    /\ Len(call.frames) = 2
    /\ call.i = 1

\* C8: a call with values of length m and frames of length n, m # n, records
\* exactly Min(m, n) keyframes, pairing values[i] with frames[i] for
\* i < Min(m, n); the surplus elements of the longer sequence are never
\* assigned nor keyed, and no value or frame outside the inputs appears.
C8_ShorterSequenceTruncates ==
    (Len(call.values) # Len(call.frames) /\ pc = Halt) =>
        LET m == Min(Len(call.values), Len(call.frames)) IN
        /\ Cardinality(KeyEvents) = m
        /\ Cardinality(SetEvents) = m
        /\ Len(kf_log) = 2 * m
        /\ \A k \in DOMAIN kf_log : kf_log[k] = PairedEvent(call, k)
        /\ {k.frame : k \in fcurves} = {call.frames[i] : i \in 1..m}
        /\ {k.value : k \in fcurves} \subseteq {call.values[i] : i \in 1..m}
        /\ props[<<call.owner, call.attr>>] = IF m = 0 THEN <<-1>> ELSE call.values[m]

C8_Witness ==
    /\ pc = Halt
    /\ Len(call.values) = 3
    /\ Len(call.frames) = 1
    /\ Len(kf_log) = 2

EmissionNodes(g) == {n \in g.nodes : n.type = "ShaderNodeEmission"}

\* exactly one emission node, no Principled BSDF node, exactly one link, from
\* the emission node into the output node's surface socket
EmissionOnlyGraph(g) ==
    /\ Cardinality(EmissionNodes(g)) = 1
    /\ \A n \in g.nodes : n.type # "ShaderNodeBsdfPrincipled" /\ n.name[1] # "Principled BSDF"
    /\ Cardinality(g.links) = 1
    /\ \A l \in g.links :
          /\ l.from \in {n.name : n \in EmissionNodes(g)}
          /\ l.to = <<"Material Output", 0>>
          /\ l.socket = "Surface"

\* C3: after every run of the material construction on the same name, the
\* first, the second or a later one, the node graph has exactly one emission
\* node, no Principled BSDF node and exactly one link, emission output into
\* the output node's surface socket; the graph after each later run equals
\* the graph after the first.
C3_MaterialConstructionIdempotent ==
    /\ \A k \in DOMAIN mat_hist :
          /\ EmissionOnlyGraph(mat_hist[k])
          /\ mat_hist[k] = mat_hist[1]
    /\ (pc = 94 /\ ~raised) =>
          /\ mat_hist # <<>>
          /\ Shape(mat) = mat_hist[Len(mat_hist)]
    /\ ~raised

C3_Witness ==
    /\ pc = 94
    /\ Len(mat_hist) >= 2
    /\ EmissionOnlyGraph(Shape(mat))

\* C4: when clear_collection returns (line 56 is next) on a collection that
\* held N objects, N >= 0, the collection holds none and none of the N is
\* left in the object registry; each removal (line 33) happens inside the
\* loop over the collection's own list, which still holds the object.
C4_ClearEmptiesCollection ==
    /\ pc = 56 =>
          /\ coll = <<>>
          /\ Range(coll0) \cap DOMAIN objects = {}
          /\ it.n = Len(coll0)
    /\ pc = 33 =>
          /\ it.cur \in Range(coll)
          /\ it.cur \in DOMAIN objects
          /\ Len(coll) = Len(coll0) - (it.n - 1)

C4_Witness ==
    /\ pc = 56
    /\ Len(coll0) >= 2
    /\ coll = <<>>

FramesKeyed(owner, attr) ==
    {k.frame : k \in {q \in fcurves : q.owner = owner /\ q.attr = attr}}

Cameras == {n \in SceneObjects : objects[n].kind = "CAMERA"}
Meshes  == {n \in SceneObjects : objects[n].kind = "MESH"}

Commits(ev) == {k \in DOMAIN ev : ev[k] = "commit"}
Frees(ev)   == {k \in DOMAIN ev : ev[k] = "free"}
Edits(ev)   == {k \in DOMAIN ev : ev[k] = "edit"}

\* open, then loads, reads and edits, then one write-back, then the release,
\* and nothing after it
SessionInOrder(ev) ==
    /\ Cardinality(Commits(ev)) <= 1
    /\ Cardinality(Frees(ev)) <= 1
    /\ \A k \in Commits(ev) : \A j \in DOMAIN ev : j > k => ev[j] = "free"
    /\ \A k \in Frees(ev) : k = Len(ev) /\ Cardinality(Commits(ev)) = 1

\* C6: each of the three editable-mesh sessions is opened, edited, written
\* back exactly once and only then released; a released representation is
\* never read or written again, and no session is opened while an earlier
\* one is unreleased.
C6_SessionsCommittedThenReleased ==
    /\ ~raised
    /\ \A s \in DOMAIN sessions :
          /\ SessionInOrder(sessions[s].events)
          /\ s < Len(sessions) => Freed(s)
    /\ Done =>
          /\ Len(sessions) = 3
          /\ \A s \in DOMAIN sessions :
                /\ Freed(s)
                /\ Edits(sessions[s].events) # {}

C6_Witness ==
    /\ Done
    /\ Len(sessions) = 3
    /\ \A s \in DOMAIN sessions :
          sessions[s].events[Len(sessions[s].events)] = "free"

\* a face of list fs every edge of which is an edge of another face of fs
InnerFace(fs, q) ==
    \A e \in FaceEdges(fs[q].verts) :
        \E r \in DOMAIN fs : r # q /\ e \in FaceEdges(fs[r].verts)

\* a face with an edge of its own on the outside and edges shared with its
\* neighbours in the ring
RingFace(fs, q) ==
    /\ \E e \in FaceEdges(fs[q].verts) :
          \A r \in DOMAIN fs : r # q => e \notin FaceEdges(fs[r].verts)
    /\ \E e \in FaceEdges(fs[q].verts) :
          \E r \in DOMAIN fs : r # q /\ e \in FaceEdges(fs[r].verts)

\* C7: the cut-out of the plane's single quad: after the inset and before
\* the deletion (line 129) there is exactly one inner face and a ring of
\* four faces around it, and the first face of the list, the one deleted,
\* is the inner one; after the deletion (line 131) exactly the ring is left,
\* with no inner face, and all 8 vertices and 12 edges are still there.
C7_CutOutLeavesRing ==
    /\ pc = 129 =>
          /\ Len(em.faces) = 5
          /\ Cardinality({q \in DOMAIN em.faces : InnerFace(em.faces, q)}) = 1
          /\ InnerFace(em.faces, 1)
          /\ em.faces[1].id = faces_select.ids[1]
          /\ \A q \in 2..5 : RingFace(em.faces, q)
          /\ Len(em.verts) = 8
          /\ Cardinality(em.edges) = 12
    /\ pc = 131 =>
          /\ [q \in DOMAIN em.faces |-> em.faces[q].id] = Tail(faces_select.ids)
          /\ Len(em.faces) = 4
          /\ \A q \in DOMAIN em.faces : ~InnerFace(em.faces, q)
          /\ Len(em.verts) = 8
          /\ Cardinality(em.edges) = 12
          /\ {{4, 5}, {5, 6}, {6, 7}, {7, 4}} \subseteq em.edges
    /\ (pc = 133 /\ ~raised) => Len(mesh.faces) = 4 /\ Len(mesh.verts) = 8

C7_Witness ==
    /\ pc = 131
    /\ Len(em.faces) = 4
    /\ Len(faces_select.ids) = 5

XY(co) == <<co[1], co[2]>>

\* C9: Basis is the first key; in Key 1 vertices 4, 5, 7, 6 have the x and y
\* of vertices 0, 1, 2, 3, so that every inner corner lies on an outer
\* corner; in Key 2 only vertices 4 and 6 have moved, to the x and y of
\* vertices 0 and 3; vertices 0 to 3 and every z are as in Basis; every
\* assignment is made in edit mode.
C9_ShapeKeyDeformation ==
    /\ ~raised
    /\ keys # <<>> => keys[1].name = <<"Basis", 0>>
    /\ pc \in EditLines => mode = "EDIT"
    /\ pc \in {174, 203} => mode = "OBJECT"
    /\ Len(keys) >= 2 /\ pc \in {174, 176} =>
          LET B == keys[1].co  K == keys[2].co IN
          /\ XY(K[5]) = XY(B[1]) /\ XY(K[6]) = XY(B[2])
          /\ XY(K[8]) = XY(B[3]) /\ XY(K[7]) = XY(B[4])
    /\ Done =>
          LET B == keys[1].co  K1 == keys[2].co  K2 == keys[3].co IN
          /\ Len(B) = 8 /\ Len(K1) = 8 /\ Len(K2) = 8
          /\ XY(K1[5]) = XY(B[1]) /\ XY(K1[6]) = XY(B[2])
          /\ XY(K1[8]) = XY(B[3]) /\ XY(K1[7]) = XY(B[4])
          /\ XY(K2[5]) = XY(B[1]) /\ XY(K2[7]) = XY(B[4])
          /\ K2[6] = B[6] /\ K2[8] = B[8]
          /\ \A i \in 1..4 : K1[i] = B[i] /\ K2[i] = B[i]
          /\ \A i \in 1..8 : K1[i][3] = B[i][3] /\ K2[i][3] = B[i][3]
          /\ \A i \in 5..8 : XY(B[i]) \notin {XY(B[j]) : j \in 1..4}
          /\ \A i \in 5..8 : XY(K1[i]) \in {XY(B[j]) : j \in 1..4}
          /\ {XY(K1[i]) : i \in 5..8} = {XY(B[j]) : j \in 1..4}
          /\ mesh.verts = B

C9_Witness ==
    /\ Done
    /\ Len(keys) = 3
    /\ keys[2].co # keys[1].co
    /\ keys[3].co # keys[2].co

Ascending(fr) == \A i, j \in DOMAIN fr : i < j => fr[i] < fr[j]

====
